---- MODULE Spec2Model ----
(***************************************************************************)
(* Model of xen/arch/arm/altp2m.c: the per-domain table of alternate p2m   *)
(* views, the per-vcpu view index and the per-view active_vcpus counter.   *)
(*                                                                         *)
(* Every exported function of the file is one action.  A function is       *)
(* written as an operator from the state before the call (a record with    *)
(* one field per variable) to the state after it, built from the           *)
(* statements of the function in their order.  Spec, ContractSpec and      *)
(* TeardownSpec run the calls one after the other; RaceSpec, LockSpec and  *)
(* FairLockSpec run them statement by statement in two control contexts.   *)
(*                                                                         *)
(* A failed ASSERT or BUG_ON, and a faulting dereference of a NULL view,   *)
(* stop the hypervisor: the field fault records which, and no later        *)
(* statement runs.  A dereference of a NULL view is undefined behaviour;   *)
(* its outcome is an input of the action: it either faults, or it reads    *)
(* and writes memory that belongs to no view and execution goes on.        *)
(***************************************************************************)
EXTENDS Integers, Sequences, FiniteSets, TLC

\* Bounds of the model.
MAX_ALTP2M == 2
NumVcpus == 2
MaxBindings == 2

\* Constants of the program.
INVALID_ALTP2M == 65535
NULL == 0
EINVAL == 22
EBUSY == 16
ENOMEM == 12

Slots == 0 .. (MAX_ALTP2M - 1)
Vcpus == 1 .. NumVcpus
\* The contexts a function can run in ("current"): a vcpu of the domain, or
\* (0) a control context that is no vcpu of the domain.
Contexts == 0 .. NumVcpus
\* The contexts that call the switch and the destroy of a view: the altp2m
\* interface is external-only, the caller is never a vcpu of the domain.
Callers == {c \in Contexts : c \notin Vcpus}
\* The indices a caller may pass: every slot and one index past the table.
IdxInputs == 0 .. MAX_ALTP2M
\* The control contexts (physical cpus running a toolstack call) of the
\* concurrent specifications; none is a vcpu of the domain.
Ctls == {"A", "B"}
\* A control context that is in no call.
Idle ==
    [pc |-> "idle", arg |-> 0, i |-> 0, p |-> NULL, rc |-> 0,
     lk |-> FALSE, paused |-> FALSE]
\* struct p2m_domain objects.  A view is owned by exactly one slot and no
\* pointer to it is stored anywhere else, so the object allocated for slot i
\* is named by the address i + 1; NULL is no object.
Addrs == 1 .. MAX_ALTP2M
AddrOf(i) == i + 1
\* What a dereference of a NULL view can do.
UBOutcomes == {"fault", "skip"}
\* Results of the external p2m_init_one.
InitResults == {0, -ENOMEM, -EINVAL}
\* What the two external calls of altp2m_init_helper can do: xzalloc fails,
\* or it succeeds and p2m_init_one returns one of its results.
HelperOutcomes ==
    {[alloc_ok |-> FALSE, init_rc |-> 0]}
        \cup {[alloc_ok |-> TRUE, init_rc |-> r] : r \in InitResults}

VARIABLES
    altp2m_p2m,     \* d->arch.altp2m_p2m[]: slot -> address of its view or NULL
    p2m_st,         \* heap: address -> "free" | "live" | "torn"
    active_vcpus,   \* p2m->active_vcpus of the object at each address
    ap2m_idx,       \* v->arch.ap2m_idx of each vcpu
    altp2m_active,  \* d->arch.altp2m_active
    altp2m_lock,    \* d->arch.altp2m_lock is held
    pause_count,    \* pause count of each vcpu
    fault,          \* "none", or why the hypervisor stopped ("UAF": freed memory used)
    null_deref,     \* the last call dereferenced a NULL view and went on
    rc,             \* the value the last call returned (0 after a void one)
    idx_out,        \* *idx of the last altp2m_init_next_available call
    last,           \* the last call: [op, arg]
    ctl             \* the call in progress in each control context

vars == <<altp2m_p2m, p2m_st, active_vcpus, ap2m_idx, altp2m_active,
          altp2m_lock, pause_count, fault, null_deref, rc, idx_out, last,
          ctl>>

\* The state a call starts from.
State ==
    [p2m |-> altp2m_p2m, st |-> p2m_st, cnt |-> active_vcpus,
     idx |-> ap2m_idx, active |-> altp2m_active, lock |-> altp2m_lock,
     pause |-> pause_count, fault |-> fault, ub |-> FALSE, rc |-> rc,
     out |-> INVALID_ALTP2M]

\* The state a call leaves.
Commit(t, op, arg) ==
    /\ altp2m_p2m' = t.p2m
    /\ p2m_st' = t.st
    /\ active_vcpus' = t.cnt
    /\ ap2m_idx' = t.idx
    /\ altp2m_active' = t.active
    /\ altp2m_lock' = t.lock
    /\ pause_count' = t.pause
    /\ fault' = t.fault
    /\ null_deref' = t.ub
    /\ rc' = t.rc
    /\ idx_out' = t.out
    /\ last' = [op |-> op, arg |-> arg]
    /\ ctl' = ctl

Running(s) == s.fault = "none"

\* A void function returns nothing.
Void(t) == [t EXCEPT !.rc = 0]

(***************************************************************************)
(* External collaborators: locking, pausing, the view object.              *)
(***************************************************************************)
lock_acquire(s) == [s EXCEPT !.lock = TRUE]

lock_release(s) == [s EXCEPT !.lock = FALSE]

vcpu_pause(s, v) == [s EXCEPT !.pause[v] = @ + 1]

vcpu_unpause(s, v) == [s EXCEPT !.pause[v] = @ - 1]

domain_pause_except_self(s, cur) ==
    [s EXCEPT !.pause = [v \in Vcpus |-> IF v = cur THEN @[v] ELSE @[v] + 1]]

domain_unpause_except_self(s, cur) ==
    [s EXCEPT !.pause = [v \in Vcpus |-> IF v = cur THEN @[v] ELSE @[v] - 1]]

\* xzalloc(struct p2m_domain) for slot i, when it succeeds: a zeroed object.
xzalloc(s, p) == [s EXCEPT !.st[p] = "live", !.cnt[p] = 0]

\* Tearing down or freeing an object that has been freed is a use of freed
\* memory: the fault "UAF" records it and nothing is tracked past it.
p2m_teardown_one(s, p) ==
    IF ~Running(s) THEN s
    ELSE IF s.st[p] = "free" THEN [s EXCEPT !.fault = "UAF"]
    ELSE [s EXCEPT !.st[p] = "torn"]

xfree(s, p) ==
    IF ~Running(s) THEN s
    ELSE IF s.st[p] = "free" THEN [s EXCEPT !.fault = "UAF"]
    ELSE [s EXCEPT !.st[p] = "free"]

(***************************************************************************)
(* altp2m_get_altp2m and the atomic updates made through its result.       *)
(***************************************************************************)
\* BUG_ON(idx >= MAX_ALTP2M), reached only when idx != INVALID_ALTP2M.
get_altp2m_bug(s, v) ==
    s.idx[v] # INVALID_ALTP2M /\ s.idx[v] >= MAX_ALTP2M

altp2m_get_altp2m(s, v) ==
    IF s.idx[v] = INVALID_ALTP2M THEN NULL ELSE s.p2m[s.idx[v]]

\* atomic_inc / atomic_dec (d = 1 / -1) of altp2m_get_altp2m(v)->active_vcpus.
atomic_add_active_vcpus(s, v, d, ub) ==
    IF get_altp2m_bug(s, v) THEN [s EXCEPT !.fault = "BUG"]
    ELSE LET p == altp2m_get_altp2m(s, v)
         IN  IF p = NULL
             THEN IF ub = "fault" THEN [s EXCEPT !.fault = "NULL"]
                                  ELSE [s EXCEPT !.ub = TRUE]
             ELSE [s EXCEPT !.cnt[p] = @ + d]

(***************************************************************************)
(* altp2m_switch_domain_altp2m_by_id                                       *)
(***************************************************************************)
\* The mutant of switch_dec_old: the old view's counter is left alone.
switch_dec_old_skipped(s, v, ub) == s

\* atomic_dec(&altp2m_get_altp2m(v)->active_vcpus) of the loop body.
switch_dec_old(s, v, ub) == atomic_add_active_vcpus(s, v, -1, ub)

\* The mutant of switch_inc_new: the new view's counter is left alone.
switch_inc_new_skipped(s, v, ub) == s

\* atomic_inc(&altp2m_get_altp2m(v)->active_vcpus) of the loop body.
switch_inc_new(s, v, ub) == atomic_add_active_vcpus(s, v, 1, ub)

\* The body of for_each_vcpu for vcpu v.
switch_vcpu(s, v, idx, ub) ==
    IF ~Running(s) \/ idx = s.idx[v] THEN s
    ELSE LET s1 == switch_dec_old(s, v, ub)
         IN  IF ~Running(s1) THEN s1
             ELSE switch_inc_new([s1 EXCEPT !.idx[v] = idx], v, ub)

RECURSIVE switch_for_each_vcpu(_, _, _, _)
switch_for_each_vcpu(s, v, idx, ub) ==
    IF v > NumVcpus THEN s
    ELSE switch_for_each_vcpu(switch_vcpu(s, v, idx, ub), v + 1, idx, ub)

\* The mutant of switch_unlock: the lock is not released.
switch_unlock_missing(s) == s

\* altp2m_unlock(d) at the end of the switch.
switch_unlock(s) == lock_release(s)

altp2m_switch_domain_altp2m_by_id(s, cur, idx, ub) ==
    LET s0 == [s EXCEPT !.rc = -EINVAL]
    IN  IF idx >= MAX_ALTP2M THEN s0
        ELSE LET s1 == lock_acquire(domain_pause_except_self(s0, cur))
                 s2 == IF s1.p2m[idx] # NULL
                       THEN LET s3 == switch_for_each_vcpu(s1, 1, idx, ub)
                            IN  IF Running(s3) THEN [s3 EXCEPT !.rc = 0] ELSE s3
                       ELSE s1
             IN  IF ~Running(s2) THEN s2
                 ELSE domain_unpause_except_self(switch_unlock(s2), cur)

(***************************************************************************)
(* altp2m_vcpu_reset, altp2m_vcpu_initialize, altp2m_vcpu_destroy          *)
(***************************************************************************)
\* The mutant of altp2m_vcpu_reset: the index is left as it was.
altp2m_vcpu_reset_missing(s, v) == s

altp2m_vcpu_reset(s, v) == [s EXCEPT !.idx[v] = INVALID_ALTP2M]

altp2m_vcpu_initialize(s, v, ub) ==
    LET s1 == vcpu_pause(s, v)
        s2 == [s1 EXCEPT !.idx[v] = 0]
        s3 == atomic_add_active_vcpus(s2, v, 1, ub)
    IN  IF ~Running(s3) THEN s3 ELSE vcpu_unpause(s3, v)

altp2m_vcpu_destroy(s, v, cur) ==
    LET s1 == IF v # cur THEN vcpu_pause(s, v) ELSE s
        s2 == IF get_altp2m_bug(s1, v) THEN [s1 EXCEPT !.fault = "BUG"]
              ELSE IF altp2m_get_altp2m(s1, v) # NULL
                   THEN atomic_add_active_vcpus(s1, v, -1, "fault")
                   ELSE s1
    IN  IF ~Running(s2) THEN s2
        ELSE LET s3 == altp2m_vcpu_reset(s2, v)
             IN  IF v # cur THEN vcpu_unpause(s3, v) ELSE s3

(***************************************************************************)
(* altp2m_init_helper, altp2m_init_by_id, altp2m_init_next_available       *)
(***************************************************************************)
\* The mutant of altp2m_init_helper: the error path does not free the view.
altp2m_init_helper_leaky(s, idx, alloc_ok, init_rc) ==
    IF s.p2m[idx] # NULL THEN [s EXCEPT !.fault = "ASSERT"]
    ELSE IF ~alloc_ok THEN [s EXCEPT !.rc = -ENOMEM]
    ELSE LET p == AddrOf(idx)
             s1 == xzalloc(s, p)
         IN  IF init_rc # 0
             THEN [s1 EXCEPT !.p2m[idx] = NULL, !.rc = init_rc]
             ELSE [s1 EXCEPT !.p2m[idx] = p, !.rc = init_rc]

\* alloc_ok: xzalloc returned an object; init_rc: what p2m_init_one returned.
altp2m_init_helper(s, idx, alloc_ok, init_rc) ==
    IF s.p2m[idx] # NULL THEN [s EXCEPT !.fault = "ASSERT"]
    ELSE IF ~alloc_ok THEN [s EXCEPT !.rc = -ENOMEM]
    ELSE LET p == AddrOf(idx)
             s1 == xzalloc(s, p)
         IN  IF init_rc # 0
             THEN [xfree(s1, p) EXCEPT !.p2m[idx] = NULL, !.rc = init_rc]
             ELSE [s1 EXCEPT !.p2m[idx] = p, !.rc = init_rc]

\* The mutant of init_by_id_rc: the call starts from rc = 0.
init_by_id_rc_zero(s) == [s EXCEPT !.rc = 0]

\* int rc = -EINVAL of altp2m_init_by_id.
init_by_id_rc(s) == [s EXCEPT !.rc = -EINVAL]

altp2m_init_by_id(s, idx, alloc_ok, init_rc) ==
    LET s0 == init_by_id_rc(s)
    IN  IF idx >= MAX_ALTP2M THEN s0
        ELSE LET s1 == lock_acquire(s0)
                 s2 == IF s1.p2m[idx] = NULL
                       THEN altp2m_init_helper(s1, idx, alloc_ok, init_rc)
                       ELSE s1
             IN  IF ~Running(s2) THEN s2 ELSE lock_release(s2)

\* for ( i = 0; i < MAX_ALTP2M; i++ ) of altp2m_init_next_available, from i.
RECURSIVE next_available_scan(_, _, _, _)
next_available_scan(s, i, alloc_ok, init_rc) ==
    IF i >= MAX_ALTP2M THEN s
    ELSE IF s.p2m[i] # NULL
         THEN next_available_scan(s, i + 1, alloc_ok, init_rc)
         ELSE [altp2m_init_helper(s, i, alloc_ok, init_rc) EXCEPT !.out = i]

\* The mutant of init_next_available_rc: the call starts from rc = 0.
init_next_available_rc_zero(s) == [s EXCEPT !.rc = 0]

\* int rc = -EINVAL of altp2m_init_next_available.
init_next_available_rc(s) == [s EXCEPT !.rc = -EINVAL]

altp2m_init_next_available(s, alloc_ok, init_rc) ==
    LET s0 == init_next_available_rc(s)
        s1 == lock_acquire(s0)
        s2 == next_available_scan(s1, 0, alloc_ok, init_rc)
    IN  IF ~Running(s2) THEN s2 ELSE lock_release(s2)

(***************************************************************************)
(* altp2m_flush, altp2m_destroy_by_id, altp2m_teardown                     *)
(***************************************************************************)
\* The mutant of flush_assert_idle: the counter is not asserted.
flush_assert_idle_missing(s, p) == TRUE

\* ASSERT(!atomic_read(&p2m->active_vcpus)) of altp2m_flush.
flush_assert_idle(s, p) == s.cnt[p] = 0

\* The body of the flush loop for slot i.
flush_slot(s, i) ==
    IF ~Running(s) \/ s.p2m[i] = NULL THEN s
    ELSE LET p == s.p2m[i]
         IN  IF ~flush_assert_idle(s, p) THEN [s EXCEPT !.fault = "ASSERT"]
             ELSE [xfree(p2m_teardown_one(s, p), p) EXCEPT !.p2m[i] = NULL]

RECURSIVE flush_for_each_slot(_, _)
flush_for_each_slot(s, i) ==
    IF i >= MAX_ALTP2M THEN s
    ELSE flush_for_each_slot(flush_slot(s, i), i + 1)

altp2m_flush(s) ==
    IF s.active THEN [s EXCEPT !.fault = "ASSERT"]
    ELSE LET s1 == flush_for_each_slot(lock_acquire(s), 0)
         IN  IF ~Running(s1) THEN s1 ELSE lock_release(s1)

\* The mutant of destroy_idle: a view is destroyed whatever its counter.
destroy_idle_unchecked(s, p) == TRUE

\* !_atomic_read(p2m->active_vcpus) of altp2m_destroy_by_id.
destroy_idle(s, p) == s.cnt[p] = 0

altp2m_destroy_by_id(s, cur, idx) ==
    LET s0 == [s EXCEPT !.rc = -EBUSY]
    IN  IF idx = 0 \/ idx >= MAX_ALTP2M THEN s0
        ELSE LET s1 == lock_acquire(domain_pause_except_self(s0, cur))
                 p == s1.p2m[idx]
                 s2 == IF p # NULL /\ destroy_idle(s1, p)
                       THEN [xfree(p2m_teardown_one(s1, p), p)
                                EXCEPT !.p2m[idx] = NULL, !.rc = 0]
                       ELSE s1
             IN  domain_unpause_except_self(lock_release(s2), cur)

\* The body of the teardown loop for slot i: the slot keeps its pointer.
teardown_slot(s, i) ==
    IF s.p2m[i] = NULL THEN s
    ELSE xfree(p2m_teardown_one(s, s.p2m[i]), s.p2m[i])

RECURSIVE teardown_for_each_slot(_, _)
teardown_for_each_slot(s, i) ==
    IF i >= MAX_ALTP2M THEN s
    ELSE teardown_for_each_slot(teardown_slot(s, i), i + 1)

altp2m_teardown(s) == teardown_for_each_slot(s, 0)

(***************************************************************************)
(* The state after domain construction: altp2m_init on a domain with an    *)
(* empty table and unbound vcpus.                                          *)
(***************************************************************************)
Init ==
    /\ altp2m_p2m = [i \in Slots |-> NULL]
    /\ p2m_st = [p \in Addrs |-> "free"]
    /\ active_vcpus = [p \in Addrs |-> 0]
    /\ ap2m_idx = [v \in Vcpus |-> INVALID_ALTP2M]
    /\ altp2m_active = FALSE
    /\ altp2m_lock = FALSE
    /\ pause_count = [v \in Vcpus |-> 0]
    /\ fault = "none"
    /\ null_deref = FALSE
    /\ rc = 0
    /\ idx_out = INVALID_ALTP2M
    /\ last = [op |-> "altp2m_init", arg |-> 0]
    /\ ctl = [c \in Ctls |-> Idle]

(***************************************************************************)
(* Actions: one per exported function.                                     *)
(***************************************************************************)
SwitchDomainAltp2mById(cur, idx, ub) ==
    Commit(altp2m_switch_domain_altp2m_by_id(State, cur, idx, ub),
           "altp2m_switch_domain_altp2m_by_id", idx)

VcpuInitialize(v, ub) ==
    Commit(Void(altp2m_vcpu_initialize(State, v, ub)), "altp2m_vcpu_initialize", v)

VcpuDestroy(v, cur) ==
    Commit(Void(altp2m_vcpu_destroy(State, v, cur)), "altp2m_vcpu_destroy", v)

InitById(idx, alloc_ok, init_rc) ==
    Commit(altp2m_init_by_id(State, idx, alloc_ok, init_rc),
           "altp2m_init_by_id", idx)

InitNextAvailable(alloc_ok, init_rc) ==
    Commit(altp2m_init_next_available(State, alloc_ok, init_rc),
           "altp2m_init_next_available", 0)

Flush == Commit(Void(altp2m_flush(State)), "altp2m_flush", 0)

DestroyById(cur, idx) ==
    Commit(altp2m_destroy_by_id(State, cur, idx), "altp2m_destroy_by_id", idx)

Teardown == Commit(Void(altp2m_teardown(State)), "altp2m_teardown", 0)

\* The activation control outside this file sets and clears altp2m_active.
SetActive(b) ==
    /\ altp2m_active # b
    /\ Commit(Void([State EXCEPT !.active = b]), "set_altp2m_active",
              IF b THEN 1 ELSE 0)

\* The sum of the counters of the views in the table.
RECURSIVE SumBindings(_)
SumBindings(i) ==
    IF i >= MAX_ALTP2M THEN 0
    ELSE (IF altp2m_p2m[i] = NULL THEN 0 ELSE active_vcpus[altp2m_p2m[i]])
         + SumBindings(i + 1)

\* Calls are made on a running hypervisor and a domain that has not been
\* torn down; altp2m_teardown is the last call on a domain.
Callable == fault = "none" /\ last.op # "altp2m_teardown"

Next ==
    \/ \E cur \in Callers, idx \in IdxInputs, ub \in UBOutcomes :
           Callable /\ SwitchDomainAltp2mById(cur, idx, ub)
    \/ \E v \in Vcpus, ub \in UBOutcomes :
           Callable /\ SumBindings(0) < MaxBindings /\ VcpuInitialize(v, ub)
    \/ \E v \in Vcpus, cur \in Contexts : Callable /\ VcpuDestroy(v, cur)
    \/ \E idx \in IdxInputs, o \in HelperOutcomes :
           Callable /\ InitById(idx, o.alloc_ok, o.init_rc)
    \/ \E o \in HelperOutcomes :
           Callable /\ InitNextAvailable(o.alloc_ok, o.init_rc)
    \/ Callable /\ Flush
    \/ \E cur \in Callers, idx \in IdxInputs : Callable /\ DestroyById(cur, idx)
    \/ Callable /\ Teardown
    \/ \E b \in BOOLEAN : Callable /\ SetActive(b)

Spec == Init /\ [][Next]_vars

(***************************************************************************)
(* The calls of a caller that keeps the documented preconditions:          *)
(* altp2m_vcpu_initialize only on an unbound vcpu and with altp2m_p2m[0]   *)
(* populated, altp2m_flush only while altp2m is inactive, and no           *)
(* altp2m_teardown.                                                        *)
(***************************************************************************)
NextContract ==
    \/ \E cur \in Callers, idx \in IdxInputs, ub \in UBOutcomes :
           Callable /\ SwitchDomainAltp2mById(cur, idx, ub)
    \/ \E v \in Vcpus, ub \in UBOutcomes :
           /\ Callable
           /\ ap2m_idx[v] = INVALID_ALTP2M
           /\ altp2m_p2m[0] # NULL
           /\ VcpuInitialize(v, ub)
    \/ \E v \in Vcpus, cur \in Contexts : Callable /\ VcpuDestroy(v, cur)
    \/ \E idx \in IdxInputs, o \in HelperOutcomes :
           Callable /\ InitById(idx, o.alloc_ok, o.init_rc)
    \/ \E o \in HelperOutcomes :
           Callable /\ InitNextAvailable(o.alloc_ok, o.init_rc)
    \/ Callable /\ ~altp2m_active /\ Flush
    \/ \E cur \in Callers, idx \in IdxInputs : Callable /\ DestroyById(cur, idx)
    \/ \E b \in BOOLEAN : Callable /\ SetActive(b)

ContractSpec == Init /\ [][NextContract]_vars

(***************************************************************************)
(* The calls the code accepts on a domain whose views altp2m_teardown has  *)
(* freed: nothing in the file refuses a second altp2m_teardown, an         *)
(* altp2m_flush or a lookup of a vcpu's view after it.                     *)
(***************************************************************************)
\* A slot refers to a view that has been torn down or freed.
Dangling(i) == altp2m_p2m[i] # NULL /\ p2m_st[altp2m_p2m[i]] # "live"

TornDown ==
    fault = "none"
        /\ (last.op = "altp2m_teardown" \/ \E i \in Slots : Dangling(i))

\* altp2m_get_altp2m(v) called for its result; the result is in rc.
GetAltp2m(v) ==
    Commit(IF get_altp2m_bug(State, v) THEN [State EXCEPT !.fault = "BUG"]
           ELSE [State EXCEPT !.rc = altp2m_get_altp2m(State, v)],
           "altp2m_get_altp2m", v)

NextTeardown ==
    \/ (~\E i \in Slots : Dangling(i)) /\ Next
    \/ TornDown /\ Teardown
    \/ TornDown /\ Flush
    \/ \E v \in Vcpus : TornDown /\ GetAltp2m(v)

TeardownSpec == Init /\ [][NextTeardown]_vars

(***************************************************************************)
(* The concurrent specifications: each control context runs one call at a  *)
(* time, one access to shared memory per step.  d->arch.altp2m_lock is a   *)
(* spinlock: a context takes it only when it is free.  The pause calls     *)
(* stop guest execution of the vcpus, they do not stop another control     *)
(* context.  altp2m_vcpu_initialize and altp2m_vcpu_destroy take no lock.  *)
(***************************************************************************)
\* The fields of the domain no step of a call in progress changes.
Hist == <<altp2m_active, null_deref, rc, idx_out, last>>

At(c, pc) == fault = "none" /\ ctl[c].pc = pc

Goto(c, r) == ctl' = [ctl EXCEPT ![c] = r]

\* The counters stay in a bounded range: no call starts outside it.
CountersBounded ==
    \A p \in Addrs : active_vcpus[p] \in (0 - MaxBindings) .. MaxBindings

CanCall(c) == Callable /\ At(c, "idle") /\ CountersBounded

\* atomic_inc / atomic_dec of altp2m_get_altp2m(v)->active_vcpus as one step;
\* an update of a view that has been freed is a use of freed memory.
AtomicAdd(v, d, ub) ==
    LET p == altp2m_get_altp2m(State, v)
        t == atomic_add_active_vcpus(State, v, d, ub)
    IN  IF ~get_altp2m_bug(State, v) /\ p # NULL /\ p2m_st[p] = "free"
        THEN fault' = "UAF" /\ active_vcpus' = active_vcpus
        ELSE fault' = t.fault /\ active_vcpus' = t.cnt

\* The context has returned; its result is read and the context is free.
Return(c) ==
    /\ At(c, "ret")
    /\ Goto(c, Idle)
    /\ UNCHANGED <<altp2m_p2m, p2m_st, active_vcpus, ap2m_idx, altp2m_lock,
                   pause_count, fault, Hist>>

\* altp2m_switch_domain_altp2m_by_id: lines 38-43.
SwStart(c, idx) ==
    /\ CanCall(c)
    /\ IF idx >= MAX_ALTP2M
       THEN /\ Goto(c, [Idle EXCEPT !.pc = "ret", !.arg = idx, !.rc = -EINVAL])
            /\ UNCHANGED pause_count
       ELSE /\ Goto(c, [Idle EXCEPT !.pc = "sw_lock", !.arg = idx,
                                    !.rc = -EINVAL, !.paused = TRUE])
            /\ pause_count' = [v \in Vcpus |-> pause_count[v] + 1]
    /\ UNCHANGED <<altp2m_p2m, p2m_st, active_vcpus, ap2m_idx, altp2m_lock,
                   fault, Hist>>

\* line 45.
SwLock(c) ==
    /\ At(c, "sw_lock") /\ ~altp2m_lock
    /\ altp2m_lock' = TRUE
    /\ Goto(c, [ctl[c] EXCEPT !.pc = "sw_check", !.lk = TRUE])
    /\ UNCHANGED <<altp2m_p2m, p2m_st, active_vcpus, ap2m_idx, pause_count,
                   fault, Hist>>

\* line 47.
SwCheck(c) ==
    /\ At(c, "sw_check")
    /\ IF altp2m_p2m[ctl[c].arg] # NULL
       THEN Goto(c, [ctl[c] EXCEPT !.pc = "sw_loop", !.i = 1])
       ELSE Goto(c, [ctl[c] EXCEPT !.pc = "sw_unlock"])
    /\ UNCHANGED <<altp2m_p2m, p2m_st, active_vcpus, ap2m_idx, altp2m_lock,
                   pause_count, fault, Hist>>

\* lines 49-54 and 70: the loop test, the comparison and the atomic_dec.
SwLoop(c, ub) ==
    /\ At(c, "sw_loop")
    /\ LET v == ctl[c].i
       IN  IF v > NumVcpus
           THEN /\ Goto(c, [ctl[c] EXCEPT !.pc = "sw_unlock", !.rc = 0, !.i = 0])
                /\ UNCHANGED <<active_vcpus, fault>>
           ELSE IF ctl[c].arg = ap2m_idx[v]
           THEN /\ Goto(c, [ctl[c] EXCEPT !.i = v + 1])
                /\ UNCHANGED <<active_vcpus, fault>>
           ELSE /\ AtomicAdd(v, -1, ub)
                /\ Goto(c, [ctl[c] EXCEPT !.pc = "sw_set"])
    /\ UNCHANGED <<altp2m_p2m, p2m_st, ap2m_idx, altp2m_lock, pause_count, Hist>>

\* line 55.
SwSet(c) ==
    /\ At(c, "sw_set")
    /\ ap2m_idx' = [ap2m_idx EXCEPT ![ctl[c].i] = ctl[c].arg]
    /\ Goto(c, [ctl[c] EXCEPT !.pc = "sw_inc"])
    /\ UNCHANGED <<altp2m_p2m, p2m_st, active_vcpus, altp2m_lock, pause_count,
                   fault, Hist>>

\* line 56.
SwInc(c, ub) ==
    /\ At(c, "sw_inc")
    /\ AtomicAdd(ctl[c].i, 1, ub)
    /\ Goto(c, [ctl[c] EXCEPT !.pc = "sw_loop", !.i = @ + 1])
    /\ UNCHANGED <<altp2m_p2m, p2m_st, ap2m_idx, altp2m_lock, pause_count, Hist>>

\* line 73.
SwUnlock(c) ==
    /\ At(c, "sw_unlock")
    /\ altp2m_lock' = FALSE
    /\ Goto(c, [ctl[c] EXCEPT !.pc = "sw_unpause", !.lk = FALSE])
    /\ UNCHANGED <<altp2m_p2m, p2m_st, active_vcpus, ap2m_idx, pause_count,
                   fault, Hist>>

\* lines 75-77.
SwUnpause(c) ==
    /\ At(c, "sw_unpause")
    /\ pause_count' = [v \in Vcpus |-> pause_count[v] - 1]
    /\ Goto(c, [ctl[c] EXCEPT !.pc = "ret", !.paused = FALSE])
    /\ UNCHANGED <<altp2m_p2m, p2m_st, active_vcpus, ap2m_idx, altp2m_lock,
                   fault, Hist>>

\* altp2m_vcpu_initialize: line 94 (the caller is a control context).
ViPause(c, v) ==
    /\ CanCall(c)
    /\ pause_count' = [pause_count EXCEPT ![v] = @ + 1]
    /\ Goto(c, [Idle EXCEPT !.pc = "vi_set", !.arg = v, !.paused = TRUE])
    /\ UNCHANGED <<altp2m_p2m, p2m_st, active_vcpus, ap2m_idx, altp2m_lock,
                   fault, Hist>>

\* line 96.
ViSet(c) ==
    /\ At(c, "vi_set")
    /\ ap2m_idx' = [ap2m_idx EXCEPT ![ctl[c].arg] = 0]
    /\ Goto(c, [ctl[c] EXCEPT !.pc = "vi_inc"])
    /\ UNCHANGED <<altp2m_p2m, p2m_st, active_vcpus, altp2m_lock, pause_count,
                   fault, Hist>>

\* line 97.
ViInc(c, ub) ==
    /\ At(c, "vi_inc")
    /\ AtomicAdd(ctl[c].arg, 1, ub)
    /\ Goto(c, [ctl[c] EXCEPT !.pc = "vi_unpause"])
    /\ UNCHANGED <<altp2m_p2m, p2m_st, ap2m_idx, altp2m_lock, pause_count, Hist>>

\* line 99.
ViUnpause(c) ==
    /\ At(c, "vi_unpause")
    /\ pause_count' = [pause_count EXCEPT ![ctl[c].arg] = @ - 1]
    /\ Goto(c, [ctl[c] EXCEPT !.pc = "ret", !.paused = FALSE])
    /\ UNCHANGED <<altp2m_p2m, p2m_st, active_vcpus, ap2m_idx, altp2m_lock,
                   fault, Hist>>

\* altp2m_vcpu_destroy: lines 106-107 (v is not current).
VdPause(c, v) ==
    /\ CanCall(c)
    /\ pause_count' = [pause_count EXCEPT ![v] = @ + 1]
    /\ Goto(c, [Idle EXCEPT !.pc = "vd_get", !.arg = v, !.paused = TRUE])
    /\ UNCHANGED <<altp2m_p2m, p2m_st, active_vcpus, ap2m_idx, altp2m_lock,
                   fault, Hist>>

\* line 109: p2m = altp2m_get_altp2m(v).
VdGet(c) ==
    /\ At(c, "vd_get")
    /\ IF get_altp2m_bug(State, ctl[c].arg)
       THEN fault' = "BUG" /\ ctl' = ctl
       ELSE /\ fault' = fault
            /\ LET p == altp2m_get_altp2m(State, ctl[c].arg)
               IN  Goto(c, [ctl[c] EXCEPT
                               !.pc = IF p # NULL THEN "vd_dec" ELSE "vd_reset",
                               !.p = p])
    /\ UNCHANGED <<altp2m_p2m, p2m_st, active_vcpus, ap2m_idx, altp2m_lock,
                   pause_count, Hist>>

\* line 110: atomic_dec(&p2m->active_vcpus).
VdDec(c) ==
    /\ At(c, "vd_dec")
    /\ IF p2m_st[ctl[c].p] = "free"
       THEN fault' = "UAF" /\ active_vcpus' = active_vcpus
       ELSE fault' = fault
            /\ active_vcpus' = [active_vcpus EXCEPT ![ctl[c].p] = @ - 1]
    /\ Goto(c, [ctl[c] EXCEPT !.pc = "vd_reset", !.p = NULL])
    /\ UNCHANGED <<altp2m_p2m, p2m_st, ap2m_idx, altp2m_lock, pause_count, Hist>>

\* line 112.
VdReset(c) ==
    /\ At(c, "vd_reset")
    /\ ap2m_idx' = altp2m_vcpu_reset(State, ctl[c].arg).idx
    /\ Goto(c, [ctl[c] EXCEPT !.pc = "vd_unpause"])
    /\ UNCHANGED <<altp2m_p2m, p2m_st, active_vcpus, altp2m_lock, pause_count,
                   fault, Hist>>

\* lines 114-115.
VdUnpause(c) ==
    /\ At(c, "vd_unpause")
    /\ pause_count' = [pause_count EXCEPT ![ctl[c].arg] = @ - 1]
    /\ Goto(c, [ctl[c] EXCEPT !.pc = "ret", !.paused = FALSE])
    /\ UNCHANGED <<altp2m_p2m, p2m_st, active_vcpus, ap2m_idx, altp2m_lock,
                   fault, Hist>>

\* altp2m_destroy_by_id: lines 231-243.
DeStart(c, idx) ==
    /\ CanCall(c)
    /\ IF idx = 0 \/ idx >= MAX_ALTP2M
       THEN /\ Goto(c, [Idle EXCEPT !.pc = "ret", !.arg = idx, !.rc = -EBUSY])
            /\ UNCHANGED pause_count
       ELSE /\ Goto(c, [Idle EXCEPT !.pc = "de_lock", !.arg = idx,
                                    !.rc = -EBUSY, !.paused = TRUE])
            /\ pause_count' = [v \in Vcpus |-> pause_count[v] + 1]
    /\ UNCHANGED <<altp2m_p2m, p2m_st, active_vcpus, ap2m_idx, altp2m_lock,
                   fault, Hist>>

\* line 245.
DeLock(c) ==
    /\ At(c, "de_lock") /\ ~altp2m_lock
    /\ altp2m_lock' = TRUE
    /\ Goto(c, [ctl[c] EXCEPT !.pc = "de_check", !.lk = TRUE])
    /\ UNCHANGED <<altp2m_p2m, p2m_st, active_vcpus, ap2m_idx, pause_count,
                   fault, Hist>>

\* lines 247-251: the slot is read, then the counter of its view.
DeCheck(c) ==
    /\ At(c, "de_check")
    /\ LET p == altp2m_p2m[ctl[c].arg]
       IN  IF p # NULL /\ destroy_idle(State, p)
           THEN Goto(c, [ctl[c] EXCEPT !.pc = "de_teardown", !.p = p])
           ELSE Goto(c, [ctl[c] EXCEPT !.pc = "de_unlock"])
    /\ UNCHANGED <<altp2m_p2m, p2m_st, active_vcpus, ap2m_idx, altp2m_lock,
                   pause_count, fault, Hist>>

\* line 253.
DeTeardown(c) ==
    /\ At(c, "de_teardown")
    /\ LET t == p2m_teardown_one(State, ctl[c].p)
       IN  p2m_st' = t.st /\ fault' = t.fault
    /\ Goto(c, [ctl[c] EXCEPT !.pc = "de_free"])
    /\ UNCHANGED <<altp2m_p2m, active_vcpus, ap2m_idx, altp2m_lock,
                   pause_count, Hist>>

\* line 254.
DeFree(c) ==
    /\ At(c, "de_free")
    /\ LET t == xfree(State, ctl[c].p)
       IN  p2m_st' = t.st /\ fault' = t.fault
    /\ Goto(c, [ctl[c] EXCEPT !.pc = "de_clear", !.p = NULL])
    /\ UNCHANGED <<altp2m_p2m, active_vcpus, ap2m_idx, altp2m_lock,
                   pause_count, Hist>>

\* lines 255-256.
DeClear(c) ==
    /\ At(c, "de_clear")
    /\ altp2m_p2m' = [altp2m_p2m EXCEPT ![ctl[c].arg] = NULL]
    /\ Goto(c, [ctl[c] EXCEPT !.pc = "de_unlock", !.rc = 0])
    /\ UNCHANGED <<p2m_st, active_vcpus, ap2m_idx, altp2m_lock, pause_count,
                   fault, Hist>>

\* The mutant of DeUnlock: the lock is not released.
DeUnlockMissing(c) ==
    /\ At(c, "de_unlock")
    /\ Goto(c, [ctl[c] EXCEPT !.pc = "de_unpause"])
    /\ UNCHANGED <<altp2m_p2m, p2m_st, active_vcpus, ap2m_idx, altp2m_lock,
                   pause_count, fault, Hist>>

\* line 260.
DeUnlock(c) ==
    /\ At(c, "de_unlock")
    /\ altp2m_lock' = FALSE
    /\ Goto(c, [ctl[c] EXCEPT !.pc = "de_unpause", !.lk = FALSE])
    /\ UNCHANGED <<altp2m_p2m, p2m_st, active_vcpus, ap2m_idx, pause_count,
                   fault, Hist>>

\* line 262.
DeUnpause(c) ==
    /\ At(c, "de_unpause")
    /\ pause_count' = [v \in Vcpus |-> pause_count[v] - 1]
    /\ Goto(c, [ctl[c] EXCEPT !.pc = "ret", !.paused = FALSE])
    /\ UNCHANGED <<altp2m_p2m, p2m_st, active_vcpus, ap2m_idx, altp2m_lock,
                   fault, Hist>>

\* altp2m_init_by_id: lines 150-153.
IbStart(c, idx) ==
    /\ CanCall(c)
    /\ IF idx >= MAX_ALTP2M
       THEN Goto(c, [Idle EXCEPT !.pc = "ret", !.arg = idx, !.rc = -EINVAL])
       ELSE Goto(c, [Idle EXCEPT !.pc = "ib_lock", !.arg = idx, !.rc = -EINVAL])
    /\ UNCHANGED <<altp2m_p2m, p2m_st, active_vcpus, ap2m_idx, altp2m_lock,
                   pause_count, fault, Hist>>

\* The mutant of IbLock: the allocation goes on without the lock.
IbLockSkipped(c) ==
    /\ At(c, "ib_lock")
    /\ Goto(c, [ctl[c] EXCEPT !.pc = "ib_helper"])
    /\ UNCHANGED <<altp2m_p2m, p2m_st, active_vcpus, ap2m_idx, altp2m_lock,
                   pause_count, fault, Hist>>

\* line 155.
IbLock(c) ==
    /\ At(c, "ib_lock") /\ ~altp2m_lock
    /\ altp2m_lock' = TRUE
    /\ Goto(c, [ctl[c] EXCEPT !.pc = "ib_helper", !.lk = TRUE])
    /\ UNCHANGED <<altp2m_p2m, p2m_st, active_vcpus, ap2m_idx, pause_count,
                   fault, Hist>>

\* lines 157-158: the slot test and altp2m_init_helper, whose object is not
\* reachable by another context before it is installed.
IbHelper(c, o) ==
    /\ At(c, "ib_helper")
    /\ LET s == [State EXCEPT !.rc = ctl[c].rc]
           t == IF s.p2m[ctl[c].arg] = NULL
                THEN altp2m_init_helper(s, ctl[c].arg, o.alloc_ok, o.init_rc)
                ELSE s
       IN  /\ altp2m_p2m' = t.p2m /\ p2m_st' = t.st /\ active_vcpus' = t.cnt
           /\ fault' = t.fault
           /\ Goto(c, [ctl[c] EXCEPT !.pc = "ib_unlock", !.rc = t.rc])
    /\ UNCHANGED <<ap2m_idx, altp2m_lock, pause_count, Hist>>

\* line 160.
IbUnlock(c) ==
    /\ At(c, "ib_unlock")
    /\ altp2m_lock' = FALSE
    /\ Goto(c, [ctl[c] EXCEPT !.pc = "ret", !.lk = FALSE])
    /\ UNCHANGED <<altp2m_p2m, p2m_st, active_vcpus, ap2m_idx, pause_count,
                   fault, Hist>>

\* altp2m_init_next_available: line 167.
InStart(c) ==
    /\ CanCall(c)
    /\ Goto(c, [Idle EXCEPT !.pc = "in_lock", !.rc = -EINVAL])
    /\ UNCHANGED <<altp2m_p2m, p2m_st, active_vcpus, ap2m_idx, altp2m_lock,
                   pause_count, fault, Hist>>

\* line 170.
InLock(c) ==
    /\ At(c, "in_lock") /\ ~altp2m_lock
    /\ altp2m_lock' = TRUE
    /\ Goto(c, [ctl[c] EXCEPT !.pc = "in_scan", !.lk = TRUE])
    /\ UNCHANGED <<altp2m_p2m, p2m_st, active_vcpus, ap2m_idx, pause_count,
                   fault, Hist>>

\* lines 172-181: the scan and altp2m_init_helper; arg is what *idx holds.
InScan(c, o) ==
    /\ At(c, "in_scan")
    /\ LET s == [State EXCEPT !.rc = ctl[c].rc]
           t == next_available_scan(s, 0, o.alloc_ok, o.init_rc)
       IN  /\ altp2m_p2m' = t.p2m /\ p2m_st' = t.st /\ active_vcpus' = t.cnt
           /\ fault' = t.fault
           /\ Goto(c, [ctl[c] EXCEPT !.pc = "in_unlock", !.rc = t.rc,
                                     !.arg = t.out])
    /\ UNCHANGED <<ap2m_idx, altp2m_lock, pause_count, Hist>>

\* line 183.
InUnlock(c) ==
    /\ At(c, "in_unlock")
    /\ altp2m_lock' = FALSE
    /\ Goto(c, [ctl[c] EXCEPT !.pc = "ret", !.lk = FALSE])
    /\ UNCHANGED <<altp2m_p2m, p2m_st, active_vcpus, ap2m_idx, pause_count,
                   fault, Hist>>

\* altp2m_flush: line 205.
FlStart(c) ==
    /\ CanCall(c)
    /\ IF altp2m_active
       THEN fault' = "ASSERT" /\ ctl' = ctl
       ELSE fault' = fault /\ Goto(c, [Idle EXCEPT !.pc = "fl_lock"])
    /\ UNCHANGED <<altp2m_p2m, p2m_st, active_vcpus, ap2m_idx, altp2m_lock,
                   pause_count, Hist>>

\* line 207.
FlLock(c) ==
    /\ At(c, "fl_lock") /\ ~altp2m_lock
    /\ altp2m_lock' = TRUE
    /\ Goto(c, [ctl[c] EXCEPT !.pc = "fl_loop", !.lk = TRUE])
    /\ UNCHANGED <<altp2m_p2m, p2m_st, active_vcpus, ap2m_idx, pause_count,
                   fault, Hist>>

\* lines 209-219: the loop test, the slot test, the ASSERT and
\* p2m_teardown_one for slot i.
FlLoop(c) ==
    /\ At(c, "fl_loop")
    /\ LET i == ctl[c].i
       IN  IF i >= MAX_ALTP2M
           THEN /\ Goto(c, [ctl[c] EXCEPT !.pc = "fl_unlock", !.i = 0])
                /\ UNCHANGED <<p2m_st, fault>>
           ELSE IF altp2m_p2m[i] = NULL
           THEN /\ Goto(c, [ctl[c] EXCEPT !.i = i + 1])
                /\ UNCHANGED <<p2m_st, fault>>
           ELSE IF ~flush_assert_idle(State, altp2m_p2m[i])
           THEN fault' = "ASSERT" /\ UNCHANGED <<p2m_st, ctl>>
           ELSE /\ LET t == p2m_teardown_one(State, altp2m_p2m[i])
                   IN  p2m_st' = t.st /\ fault' = t.fault
                /\ Goto(c, [ctl[c] EXCEPT !.pc = "fl_free", !.p = altp2m_p2m[i]])
    /\ UNCHANGED <<altp2m_p2m, active_vcpus, ap2m_idx, altp2m_lock,
                   pause_count, Hist>>

\* line 221.
FlFree(c) ==
    /\ At(c, "fl_free")
    /\ LET t == xfree(State, ctl[c].p)
       IN  p2m_st' = t.st /\ fault' = t.fault
    /\ Goto(c, [ctl[c] EXCEPT !.pc = "fl_clear", !.p = NULL])
    /\ UNCHANGED <<altp2m_p2m, active_vcpus, ap2m_idx, altp2m_lock,
                   pause_count, Hist>>

\* line 222.
FlClear(c) ==
    /\ At(c, "fl_clear")
    /\ altp2m_p2m' = [altp2m_p2m EXCEPT ![ctl[c].i] = NULL]
    /\ Goto(c, [ctl[c] EXCEPT !.pc = "fl_loop", !.i = @ + 1])
    /\ UNCHANGED <<p2m_st, active_vcpus, ap2m_idx, altp2m_lock, pause_count,
                   fault, Hist>>

\* line 225.
FlUnlock(c) ==
    /\ At(c, "fl_unlock")
    /\ altp2m_lock' = FALSE
    /\ Goto(c, [ctl[c] EXCEPT !.pc = "ret", !.lk = FALSE])
    /\ UNCHANGED <<altp2m_p2m, p2m_st, active_vcpus, ap2m_idx, pause_count,
                   fault, Hist>>

AllIdle == \A c \in Ctls : ctl[c].pc = "idle"

\* Every view in the table is idle: what altp2m_flush asserts of its caller.
AllViewsIdle == \A i \in Slots : altp2m_p2m[i] # NULL => active_vcpus[altp2m_p2m[i]] = 0

\* altp2m_vcpu_initialize and altp2m_vcpu_destroy (by a control context) as
\* one step each, for the specification in which they run between the
\* calls that take the lock.
VcpuInitializeAtomic(v, ub) ==
    LET t == altp2m_vcpu_initialize(State, v, ub)
    IN  /\ ap2m_idx' = t.idx /\ active_vcpus' = t.cnt
        /\ pause_count' = t.pause /\ fault' = t.fault
        /\ UNCHANGED <<altp2m_p2m, p2m_st, altp2m_lock, ctl, Hist>>

VcpuDestroyAtomic(v) ==
    LET t == altp2m_vcpu_destroy(State, v, 0)
    IN  /\ ap2m_idx' = t.idx /\ active_vcpus' = t.cnt
        /\ pause_count' = t.pause /\ fault' = t.fault
        /\ UNCHANGED <<altp2m_p2m, p2m_st, altp2m_lock, ctl, Hist>>

\* In RaceSpec context A makes the calls on the table and context B the
\* calls on a vcpu.
TableCtls == {"A"}
VcpuCtls == {"B"}

(***************************************************************************)
(* RaceSpec: a switch, a destroy or an allocation of a view in one control *)
(* context, altp2m_vcpu_initialize or altp2m_vcpu_destroy in another, each *)
(* started as the documented preconditions allow (those of NextContract).  *)
(***************************************************************************)
RaceNext ==
    \/ \E c \in Ctls : Return(c)
    \/ \E c \in TableCtls, idx \in IdxInputs : SwStart(c, idx)
    \/ \E c \in Ctls : SwLock(c)
    \/ \E c \in Ctls : SwCheck(c)
    \/ \E c \in Ctls, ub \in UBOutcomes : SwLoop(c, ub)
    \/ \E c \in Ctls : SwSet(c)
    \/ \E c \in Ctls, ub \in UBOutcomes : SwInc(c, ub)
    \/ \E c \in Ctls : SwUnlock(c)
    \/ \E c \in Ctls : SwUnpause(c)
    \/ \E c \in VcpuCtls, v \in Vcpus :
           ap2m_idx[v] = INVALID_ALTP2M /\ altp2m_p2m[0] # NULL /\ ViPause(c, v)
    \/ \E c \in Ctls : ViSet(c)
    \/ \E c \in Ctls, ub \in UBOutcomes : ViInc(c, ub)
    \/ \E c \in Ctls : ViUnpause(c)
    \/ \E c \in VcpuCtls, v \in Vcpus : VdPause(c, v)
    \/ \E c \in Ctls : VdGet(c)
    \/ \E c \in Ctls : VdDec(c)
    \/ \E c \in Ctls : VdReset(c)
    \/ \E c \in Ctls : VdUnpause(c)
    \/ \E c \in TableCtls, idx \in IdxInputs : DeStart(c, idx)
    \/ \E c \in Ctls : DeLock(c)
    \/ \E c \in Ctls : DeCheck(c)
    \/ \E c \in Ctls : DeTeardown(c)
    \/ \E c \in Ctls : DeFree(c)
    \/ \E c \in Ctls : DeClear(c)
    \/ \E c \in Ctls : DeUnlock(c)
    \/ \E c \in Ctls : DeUnpause(c)
    \/ \E c \in TableCtls, idx \in IdxInputs : IbStart(c, idx)
    \/ \E c \in Ctls : IbLock(c)
    \/ \E c \in Ctls, o \in HelperOutcomes : IbHelper(c, o)
    \/ \E c \in Ctls : IbUnlock(c)

RaceSpec == Init /\ [][RaceNext]_vars

(***************************************************************************)
(* LockSpec: both control contexts make the calls that take the lock;      *)
(* altp2m_vcpu_initialize and altp2m_vcpu_destroy run as the documented    *)
(* preconditions allow and, like altp2m_teardown, with no call in          *)
(* progress.                                                               *)
(***************************************************************************)
LockNext ==
    \/ \E c \in Ctls : Return(c)
    \/ \E c \in Ctls, idx \in IdxInputs : SwStart(c, idx)
    \/ \E c \in Ctls : SwLock(c)
    \/ \E c \in Ctls : SwCheck(c)
    \/ \E c \in Ctls, ub \in UBOutcomes : SwLoop(c, ub)
    \/ \E c \in Ctls : SwSet(c)
    \/ \E c \in Ctls, ub \in UBOutcomes : SwInc(c, ub)
    \/ \E c \in Ctls : SwUnlock(c)
    \/ \E c \in Ctls : SwUnpause(c)
    \/ \E c \in Ctls, idx \in IdxInputs : DeStart(c, idx)
    \/ \E c \in Ctls : DeLock(c)
    \/ \E c \in Ctls : DeCheck(c)
    \/ \E c \in Ctls : DeTeardown(c)
    \/ \E c \in Ctls : DeFree(c)
    \/ \E c \in Ctls : DeClear(c)
    \/ \E c \in Ctls : DeUnlock(c)
    \/ \E c \in Ctls : DeUnpause(c)
    \/ \E c \in Ctls, idx \in IdxInputs : IbStart(c, idx)
    \/ \E c \in Ctls : IbLock(c)
    \/ \E c \in Ctls, o \in HelperOutcomes : IbHelper(c, o)
    \/ \E c \in Ctls : IbUnlock(c)
    \/ \E c \in Ctls : InStart(c)
    \/ \E c \in Ctls : InLock(c)
    \/ \E c \in Ctls, o \in HelperOutcomes : InScan(c, o)
    \/ \E c \in Ctls : InUnlock(c)
    \/ \E c \in Ctls : AllViewsIdle /\ FlStart(c)
    \/ \E c \in Ctls : FlLock(c)
    \/ \E c \in Ctls : FlLoop(c)
    \/ \E c \in Ctls : FlFree(c)
    \/ \E c \in Ctls : FlClear(c)
    \/ \E c \in Ctls : FlUnlock(c)
    \/ \E v \in Vcpus, ub \in UBOutcomes :
           /\ Callable /\ AllIdle
           /\ ap2m_idx[v] = INVALID_ALTP2M /\ altp2m_p2m[0] # NULL
           /\ VcpuInitializeAtomic(v, ub)
    \/ \E v \in Vcpus : Callable /\ AllIdle /\ VcpuDestroyAtomic(v)
    \/ Callable /\ AllIdle /\ Teardown

LockSpec == Init /\ [][LockNext]_vars

(***************************************************************************)
(* FairLockSpec: LockSpec with the scheduling the calls rely on.  A        *)
(* control context is a physical cpu inside the hypervisor: it executes    *)
(* its next statement (weak fairness); domain_pause_except_self returns    *)
(* because a vcpu honours the pause, so the pause is a statement like any  *)
(* other; the spinlock is fair: a context that waits for a lock that is    *)
(* free again and again gets it (strong fairness).                         *)
(***************************************************************************)
\* The context takes the lock it waits for.
Acquire(c) == SwLock(c) \/ DeLock(c) \/ IbLock(c) \/ InLock(c) \/ FlLock(c)

\* The context executes the next statement of its call, a lock aside.
Proceed(c) ==
    \/ Return(c)
    \/ SwCheck(c) \/ SwSet(c) \/ SwUnlock(c) \/ SwUnpause(c)
    \/ \E ub \in UBOutcomes : SwLoop(c, ub) \/ SwInc(c, ub)
    \/ DeCheck(c) \/ DeTeardown(c) \/ DeFree(c) \/ DeClear(c)
    \/ DeUnlock(c) \/ DeUnpause(c)
    \/ IbUnlock(c) \/ InUnlock(c)
    \/ \E o \in HelperOutcomes : IbHelper(c, o) \/ InScan(c, o)
    \/ FlLoop(c) \/ FlFree(c) \/ FlClear(c) \/ FlUnlock(c)

FairLockSpec ==
    /\ LockSpec
    /\ \A c \in Ctls : WF_vars(Proceed(c)) /\ SF_vars(Acquire(c))

(***************************************************************************)
(* Properties.                                                             *)
(***************************************************************************)
\* The vcpus whose ap2m_idx is i, in the given index function.
BoundTo(idxs, i) == {v \in Vcpus : idxs[v] = i}

Occupied(i) == altp2m_p2m[i] # NULL

\* The counter of the view in slot i (the slot is occupied).
CounterOf(i) == active_vcpus[altp2m_p2m[i]]

TableUnchanged ==
    /\ altp2m_p2m' = altp2m_p2m
    /\ p2m_st' = p2m_st
    /\ active_vcpus' = active_vcpus

\* C1 (I2): after any sequence of calls that keep the preconditions, for
\* every occupied slot i the number of vcpus with ap2m_idx = i equals the
\* active_vcpus counter of the view in slot i.
C1_BindingCount ==
    \A i \in Slots : Occupied(i) => Cardinality(BoundTo(ap2m_idx, i)) = CounterOf(i)

\* C1 witness: a switch has moved every vcpu from view 0 to view 1.
C1_Witness ==
    /\ last = [op |-> "altp2m_switch_domain_altp2m_by_id", arg |-> 1]
    /\ rc = 0 /\ fault = "none" /\ ~null_deref
    /\ Occupied(0) /\ Occupied(1)
    /\ CounterOf(1) = NumVcpus /\ CounterOf(0) = 0
    /\ \A v \in Vcpus : ap2m_idx[v] = 1

\* C2: a switch to an occupied slot k, from any state (unbound vcpus
\* included), returns 0, leaves every vcpu with ap2m_idx = k and the counter
\* of k equal to the number of vcpus, decreases the counter of every other
\* occupied slot by the number of vcpus that left it, and no step of the
\* loop works on a NULL view.
C2_SwitchAllFromAnyState ==
    [][ (/\ last'.op = "altp2m_switch_domain_altp2m_by_id"
         /\ last'.arg \in Slots
         /\ Occupied(last'.arg))
        => (/\ fault' = "none"
            /\ ~null_deref'
            /\ rc' = 0
            /\ \A v \in Vcpus : ap2m_idx'[v] = last'.arg
            /\ active_vcpus'[altp2m_p2m[last'.arg]] = NumVcpus
            /\ \A i \in Slots \ {last'.arg} :
                   Occupied(i) =>
                       active_vcpus'[altp2m_p2m[i]]
                           = CounterOf(i) - Cardinality(BoundTo(ap2m_idx, i))) ]_vars

\* C3: altp2m_destroy_by_id with 0 < idx < MAX_ALTP2M returns 0 exactly when
\* the slot is occupied and its counter is 0 at the call; on success the slot
\* is NULL and the view freed; the call ends the life of no view other than
\* that one, and of none whose counter is not 0.
C3_DestroyIffIdle ==
    [][ (/\ last'.op = "altp2m_destroy_by_id"
         /\ last'.arg \in Slots \ {0})
        => LET k == last'.arg
               p == altp2m_p2m[k]
           IN  /\ (rc' = 0) <=> (p # NULL /\ active_vcpus[p] = 0)
               /\ rc' = 0 => (altp2m_p2m'[k] = NULL /\ p2m_st'[p] = "free")
               /\ \A q \in Addrs :
                      (p2m_st[q] = "live" /\ p2m_st'[q] # "live")
                          => (q = p /\ active_vcpus[q] = 0) ]_vars

\* C3 witness: a view other than view 0 has been destroyed.
C3_Witness ==
    /\ last.op = "altp2m_destroy_by_id" /\ last.arg \in Slots \ {0}
    /\ rc = 0 /\ fault = "none"
    /\ altp2m_p2m[last.arg] = NULL
    /\ p2m_st[AddrOf(last.arg)] = "free"

\* C4: altp2m_destroy_by_id with idx = 0 or idx >= MAX_ALTP2M fails with
\* -EINVAL, not -EBUSY, without pausing, locking or changing anything.
C4_DestroyInvalidIndex ==
    [][ (/\ last'.op = "altp2m_destroy_by_id"
         /\ (last'.arg = 0 \/ last'.arg >= MAX_ALTP2M))
        => (/\ rc' = -EINVAL
            /\ TableUnchanged
            /\ UNCHANGED <<ap2m_idx, altp2m_active, altp2m_lock, pause_count, fault>>) ]_vars

\* C5 (I3): while altp2m_active is true no call, altp2m_teardown included,
\* tears down or empties slot 0.
C5_Slot0Protected ==
    [][ (altp2m_active /\ Occupied(0))
        => (/\ altp2m_p2m'[0] = altp2m_p2m[0]
            /\ p2m_st'[altp2m_p2m[0]] = p2m_st[altp2m_p2m[0]]) ]_vars

\* C6: altp2m_init_by_id on an occupied slot returns a failure and changes
\* neither the slot nor its view; with idx >= MAX_ALTP2M it returns -EINVAL,
\* allocates nothing and changes no slot.
C6_InitByIdRejects ==
    [][ (last'.op = "altp2m_init_by_id")
        => (/\ (last'.arg \in Slots /\ Occupied(last'.arg))
                   => (rc' # 0 /\ TableUnchanged /\ fault' = "none")
            /\ (last'.arg >= MAX_ALTP2M)
                   => (rc' = -EINVAL /\ TableUnchanged /\ fault' = "none")) ]_vars

\* C6 witness: altp2m_init_by_id has been refused on an occupied slot whose
\* view has vcpus bound to it.
C6_Witness ==
    /\ last.op = "altp2m_init_by_id" /\ last.arg \in Slots
    /\ rc = -EINVAL /\ fault = "none"
    /\ Occupied(last.arg) /\ p2m_st[altp2m_p2m[last.arg]] = "live"
    /\ CounterOf(last.arg) = NumVcpus

\* C7: altp2m_init_next_available on a full table returns the no-space
\* result (-EINVAL), allocates nothing, writes no index and leaves every
\* slot and the lock as they were.
C7_NextAvailableFull ==
    [][ (/\ last'.op = "altp2m_init_next_available"
         /\ \A i \in Slots : Occupied(i))
        => (/\ rc' = -EINVAL
            /\ TableUnchanged
            /\ altp2m_lock' = altp2m_lock
            /\ idx_out' = INVALID_ALTP2M
            /\ fault' = "none") ]_vars

\* C7 witness: altp2m_init_next_available has failed on a full table.
C7_Witness ==
    /\ last.op = "altp2m_init_next_available"
    /\ rc = -EINVAL /\ fault = "none" /\ idx_out = INVALID_ALTP2M
    /\ \A i \in Slots : Occupied(i) /\ p2m_st[altp2m_p2m[i]] = "live"
    /\ ~altp2m_lock

\* C8: altp2m_flush called while altp2m is inactive and every view is idle
\* leaves every slot NULL, slot 0 included, and the lock free; called while
\* altp2m is active, or while a view in the table has a counter other than
\* 0, it stops on a failed ASSERT; it ends the life of no view whose counter
\* is not 0.
C8_Flush ==
    [][ (last'.op = "altp2m_flush")
        => LET idle == \A i \in Slots : Occupied(i) => CounterOf(i) = 0
           IN  /\ (~altp2m_active /\ idle)
                      => (/\ fault' = "none"
                          /\ \A i \in Slots : altp2m_p2m'[i] = NULL
                          /\ \A q \in Addrs : p2m_st'[q] = "free"
                          /\ ~altp2m_lock')
               /\ (altp2m_active \/ ~idle) => fault' = "ASSERT"
               /\ \A q \in Addrs :
                      (p2m_st[q] = "live" /\ p2m_st'[q] # "live")
                          => active_vcpus[q] = 0 ]_vars

\* C8 witness: an inactive altp2m_flush has stopped on the ASSERT of a view
\* that has a vcpu bound to it, after it had freed view 0.
C8_Witness ==
    /\ last.op = "altp2m_flush" /\ fault = "ASSERT" /\ ~altp2m_active
    /\ altp2m_p2m[0] = NULL
    /\ \E i \in Slots :
           /\ Occupied(i) /\ p2m_st[altp2m_p2m[i]] = "live"
           /\ CounterOf(i) = NumVcpus
           /\ \A v \in Vcpus : ap2m_idx[v] = i

\* The state of the scenario before the switch: views 0 and 1 exist and
\* every vcpu is bound to view 0.
ScenarioAllOnView0 ==
    /\ Occupied(0) /\ Occupied(1)
    /\ \A v \in Vcpus : ap2m_idx[v] = 0
    /\ CounterOf(0) = NumVcpus /\ CounterOf(1) = 0

\* The state of the scenario after the switch: every vcpu is bound to view 1.
ScenarioAllOnView1 ==
    /\ Occupied(0) /\ Occupied(1)
    /\ \A v \in Vcpus : ap2m_idx[v] = 1
    /\ CounterOf(0) = 0 /\ CounterOf(1) = NumVcpus

\* C9, as stated: in the scenario the switch to view 1 leaves every vcpu on
\* view 1, counter 0 at 0 and counter 1 at the number of vcpus; then
\* altp2m_destroy_by_id(0) returns 0 because its counter is 0.
C9_ScenarioAsStated ==
    [][ /\ (ScenarioAllOnView0
            /\ last' = [op |-> "altp2m_switch_domain_altp2m_by_id", arg |-> 1])
           => (rc' = 0 /\ ScenarioAllOnView1')
        /\ (ScenarioAllOnView1
            /\ last' = [op |-> "altp2m_destroy_by_id", arg |-> 0])
           => rc' = 0 ]_vars

\* C9, amended: in the scenario the switch to view 1 leaves every vcpu on
\* view 1, counter 0 at 0 and counter 1 at the number of vcpus; then
\* altp2m_destroy_by_id(0) is refused with -EBUSY although its counter is 0,
\* and altp2m_destroy_by_id(1) is refused with -EBUSY because its counter is
\* not 0; both leave the table as it was.
C9_Scenario ==
    [][ /\ (ScenarioAllOnView0
            /\ last' = [op |-> "altp2m_switch_domain_altp2m_by_id", arg |-> 1])
           => (rc' = 0 /\ ScenarioAllOnView1' /\ fault' = "none")
        /\ (ScenarioAllOnView1
            /\ last'.op = "altp2m_destroy_by_id" /\ last'.arg \in {0, 1})
           => (rc' = -EBUSY /\ ScenarioAllOnView1' /\ TableUnchanged) ]_vars

\* C9 witness: the end of the scenario, view 1 refused to be destroyed.
C9_Witness ==
    /\ last = [op |-> "altp2m_destroy_by_id", arg |-> 1]
    /\ rc = -EBUSY /\ fault = "none"
    /\ ScenarioAllOnView1
    /\ idx_out = INVALID_ALTP2M /\ ~altp2m_active

\* What a rejected switch leaves: no binding, counter or slot changed, the
\* lock free and every vcpu's pause count as before the call.
SwitchRejectedCleanly ==
    /\ fault' = "none"
    /\ TableUnchanged
    /\ ap2m_idx' = ap2m_idx
    /\ ~altp2m_lock'
    /\ pause_count' = pause_count

\* C10, as stated: a switch to an empty slot below MAX_ALTP2M is rejected
\* with a result of its own, different from the -EINVAL of an index out of
\* range, and either rejection changes nothing.
C10_SwitchRejectAsStated ==
    [][ (last'.op = "altp2m_switch_domain_altp2m_by_id")
        => (/\ (last'.arg \in Slots /\ ~Occupied(last'.arg))
                   => (rc' # 0 /\ rc' # -EINVAL /\ SwitchRejectedCleanly)
            /\ (last'.arg >= MAX_ALTP2M)
                   => (rc' = -EINVAL /\ SwitchRejectedCleanly)) ]_vars

\* C10, amended: a switch to an empty slot below MAX_ALTP2M is rejected with
\* -EINVAL, the same result as for an index out of range, and either
\* rejection changes no binding, counter or slot, leaves the lock free and
\* the vcpus resumed.
C10_SwitchReject ==
    [][ (last'.op = "altp2m_switch_domain_altp2m_by_id")
        => (/\ (last'.arg \in Slots /\ ~Occupied(last'.arg))
                   => (rc' = -EINVAL /\ SwitchRejectedCleanly)
            /\ (last'.arg >= MAX_ALTP2M)
                   => (rc' = -EINVAL /\ SwitchRejectedCleanly)) ]_vars

\* C10 witness: a switch to an empty slot has been rejected while every
\* vcpu was bound to view 0.
C10_Witness ==
    /\ last.op = "altp2m_switch_domain_altp2m_by_id" /\ last.arg \in Slots
    /\ ~Occupied(last.arg)
    /\ rc = -EINVAL /\ fault = "none" /\ ~altp2m_lock
    /\ Occupied(0) /\ CounterOf(0) = NumVcpus
    /\ \A v \in Vcpus : ap2m_idx[v] = 0 /\ pause_count[v] = 0

\* The lowest-index empty slot of the table (there is one).
LowestEmpty ==
    CHOOSE k \in Slots : ~Occupied(k) /\ \A j \in Slots : j < k => Occupied(j)

\* The outcomes of the helper's external calls that make the allocation fail.
FailingOutcomes == {o \in HelperOutcomes : ~o.alloc_ok \/ o.init_rc # 0}

\* What a failed allocation for the empty slot k leaves, when the external
\* calls did o: the slot empty, no slot, view, binding or counter changed,
\* the lock free, and -ENOMEM or the result of p2m_init_one returned.
AllocationFailedCleanly(k, o) ==
    /\ fault' = "none"
    /\ rc' = (IF o.alloc_ok THEN o.init_rc ELSE -ENOMEM)
    /\ altp2m_p2m'[k] = NULL
    /\ altp2m_p2m' = altp2m_p2m
    /\ p2m_st' = p2m_st
    /\ ap2m_idx' = ap2m_idx
    /\ \A i \in Slots : Occupied(i) => active_vcpus'[altp2m_p2m[i]] = CounterOf(i)
    /\ ~altp2m_lock'

\* C11: when altp2m_init_by_id on an empty slot, or
\* altp2m_init_next_available on a table with an empty slot, fails because
\* xzalloc fails or p2m_init_one returns an error, the targeted slot is empty
\* afterwards, every other slot, binding and counter is unchanged, the lock
\* is released and the result is -ENOMEM or exactly the error of
\* p2m_init_one.
C11_AllocationFailureAtomic ==
    [][ /\ (/\ last'.op = "altp2m_init_by_id"
             /\ last'.arg \in Slots /\ ~Occupied(last'.arg))
            => \A o \in FailingOutcomes :
                   InitById(last'.arg, o.alloc_ok, o.init_rc)
                       => AllocationFailedCleanly(last'.arg, o)
        /\ (/\ last'.op = "altp2m_init_next_available"
             /\ \E k \in Slots : ~Occupied(k))
            => \A o \in FailingOutcomes :
                   InitNextAvailable(o.alloc_ok, o.init_rc)
                       => AllocationFailedCleanly(LowestEmpty, o) ]_vars

\* C11 witness: altp2m_init_next_available has failed on p2m_init_one's
\* error for slot 1 while every vcpu was bound to view 0.
C11_Witness ==
    /\ last.op = "altp2m_init_next_available"
    /\ rc = -EINVAL /\ fault = "none" /\ idx_out = 1
    /\ ~Occupied(1) /\ p2m_st[AddrOf(1)] = "free"
    /\ Occupied(0) /\ CounterOf(0) = NumVcpus
    /\ \A v \in Vcpus : ap2m_idx[v] = 0
    /\ ~altp2m_lock

\* What a successful allocation for the empty slot k leaves: a live view with
\* counter 0 in slot k, every other slot and view, and every binding, as it
\* was, and the lock free.
AllocationInstalled(k) ==
    /\ fault' = "none" /\ rc' = 0
    /\ altp2m_p2m'[k] # NULL
    /\ p2m_st'[altp2m_p2m'[k]] = "live"
    /\ active_vcpus'[altp2m_p2m'[k]] = 0
    /\ \A i \in Slots \ {k} :
           /\ altp2m_p2m'[i] = altp2m_p2m[i]
           /\ Occupied(i) => /\ p2m_st'[altp2m_p2m[i]] = p2m_st[altp2m_p2m[i]]
                             /\ active_vcpus'[altp2m_p2m[i]] = CounterOf(i)
    /\ ap2m_idx' = ap2m_idx
    /\ ~altp2m_lock'

\* C17: altp2m_init_next_available on a table with an empty slot, when
\* xzalloc and p2m_init_one succeed, installs the new view in the
\* lowest-index empty slot, writes exactly that index to *idx and leaves
\* every other slot unchanged; *idx is written only on success.
C17_NextAvailableLowest ==
    [][ (/\ last'.op = "altp2m_init_next_available"
         /\ \E k \in Slots : ~Occupied(k))
        => \A o \in HelperOutcomes :
               InitNextAvailable(o.alloc_ok, o.init_rc)
               => /\ (o.alloc_ok /\ o.init_rc = 0)
                      => (/\ AllocationInstalled(LowestEmpty)
                          /\ idx_out' = LowestEmpty)
                  /\ (rc' # 0) => idx_out' = INVALID_ALTP2M ]_vars

\* C18: altp2m_vcpu_destroy on a vcpu bound to a view decrements the counter
\* of exactly that view by one and sets ap2m_idx to INVALID_ALTP2M; on an
\* unbound vcpu it changes no counter and leaves ap2m_idx at
\* INVALID_ALTP2M, so a second call changes nothing; the pause count of
\* every vcpu is the same after the call as before, and no slot or view
\* changes.
C18_VcpuDestroy ==
    [][ (last'.op = "altp2m_vcpu_destroy")
        => LET v == last'.arg
               k == ap2m_idx[v]
           IN  /\ fault' = "none"
               /\ ap2m_idx' = [ap2m_idx EXCEPT ![v] = INVALID_ALTP2M]
               /\ pause_count' = pause_count
               /\ altp2m_p2m' = altp2m_p2m /\ p2m_st' = p2m_st
               /\ altp2m_lock' = altp2m_lock /\ altp2m_active' = altp2m_active
               /\ (k \in Slots /\ Occupied(k))
                      => active_vcpus'
                             = [active_vcpus EXCEPT ![altp2m_p2m[k]] = @ - 1]
               /\ (k = INVALID_ALTP2M)
                      => (active_vcpus' = active_vcpus /\ ap2m_idx' = ap2m_idx) ]_vars

\* C18 witness: one of the vcpus bound to view 0 has been destroyed, the
\* others are still bound to it.
C18_Witness ==
    /\ last.op = "altp2m_vcpu_destroy" /\ fault = "none"
    /\ ap2m_idx[last.arg] = INVALID_ALTP2M
    /\ pause_count[last.arg] = 0
    /\ Occupied(0) /\ CounterOf(0) = NumVcpus - 1
    /\ \A w \in Vcpus \ {last.arg} : ap2m_idx[w] = 0

\* C20: over any sequence of calls that contains altp2m_teardown (followed
\* or not by altp2m_flush, a second altp2m_teardown or a lookup of a vcpu's
\* view), no view is torn down or freed twice, after altp2m_teardown every
\* slot is NULL, and a lookup never returns a freed view.
C20_ReleasedOnce ==
    [][ /\ fault' # "UAF"
        /\ (last'.op = "altp2m_teardown")
               => \A i \in Slots : altp2m_p2m'[i] = NULL
        /\ (last'.op = "altp2m_get_altp2m" /\ fault' = "none" /\ rc' # NULL)
               => p2m_st'[rc'] = "live" ]_vars

\* C12: while altp2m_vcpu_destroy or altp2m_vcpu_initialize runs in another
\* control context than a switch or a destroy of a view, no state has a vcpu
\* whose ap2m_idx is a slot that is NULL or whose view has been torn down or
\* freed; altp2m_destroy_by_id(k) never succeeds while a vcpu has
\* ap2m_idx = k.
C12_NoBindingToEmptySlot ==
    \A v \in Vcpus :
        ap2m_idx[v] \in Slots
            => (Occupied(ap2m_idx[v]) /\ p2m_st[altp2m_p2m[ap2m_idx[v]]] = "live")

\* The context is in a switch, holds the lock and has the guest paused.
SwitchHoldsLock(c) ==
    /\ ctl[c].pc \in {"sw_check", "sw_loop", "sw_set", "sw_inc", "sw_unlock"}
    /\ ctl[c].lk /\ ctl[c].paused

\* C13: while a switch holds the lock with the guest paused, no step of
\* another context (altp2m_vcpu_initialize and altp2m_vcpu_destroy of another
\* control context included) writes a vcpu's ap2m_idx or changes an
\* active_vcpus counter; and once every call has returned, the counter of
\* every view in the table is the number of vcpus bound to it (I2).
C13_SwitchExclusive ==
    [][ /\ \A c \in Ctls :
               (SwitchHoldsLock(c) /\ ctl'[c] = ctl[c])
                   => (ap2m_idx' = ap2m_idx /\ active_vcpus' = active_vcpus)
        /\ (AllIdle' /\ fault' = "none") => C1_BindingCount' ]_vars

\* C14: altp2m_destroy_by_id, altp2m_flush and altp2m_teardown clear the
\* slot before they tear the view down and free it, so in no state does a
\* slot hold the address of a view that has been torn down or freed.
C14_SlotClearedFirst == \A i \in Slots : ~Dangling(i)

\* The statements of altp2m_switch_domain_altp2m_by_id and
\* altp2m_destroy_by_id after the argument check.
PausingCallPcs ==
    {"sw_lock", "sw_check", "sw_loop", "sw_set", "sw_inc", "sw_unlock",
     "sw_unpause", "de_lock", "de_check", "de_teardown", "de_free",
     "de_clear", "de_unlock", "de_unpause"}

\* C15: a switch or a destroy of a view that passes the argument check holds
\* the lock only while it has every vcpu paused (it pauses before it locks
\* and unlocks before it resumes); when it returns it holds neither the lock
\* nor a pause, the pause count of every vcpu is the number of calls in
\* progress that have paused it and the lock is held exactly when a call in
\* progress holds it; a call rejected by the argument check changes neither
\* a pause count nor the lock.
C15_PauseLockBracket ==
    [][ /\ \A c \in Ctls :
               /\ (ctl'[c].pc \in PausingCallPcs /\ ctl'[c].lk)
                      => (ctl'[c].paused /\ \A v \in Vcpus : pause_count'[v] >= 1)
               /\ (ctl[c].pc \in PausingCallPcs /\ ctl'[c].pc = "ret")
                      => (~ctl'[c].lk /\ ~ctl'[c].paused)
               /\ (ctl[c].pc = "idle" /\ ctl'[c].pc = "ret")
                      => (pause_count' = pause_count /\ altp2m_lock' = altp2m_lock)
        /\ (fault' = "none")
               => /\ \A v \in Vcpus :
                         pause_count'[v] = Cardinality({c \in Ctls : ctl'[c].paused})
                  /\ altp2m_lock' <=> \E c \in Ctls : ctl'[c].lk ]_vars

\* C15 witness: a destroy of view 1 has returned -EBUSY because every vcpu
\* is bound to it; the lock is free and no vcpu is paused.
C15_Witness ==
    /\ \E c \in Ctls :
           /\ ctl[c].pc = "ret" /\ ctl[c].arg = 1 /\ ctl[c].rc = -EBUSY
           /\ \A d \in Ctls \ {c} : ctl[d].pc = "idle"
    /\ fault = "none" /\ ~altp2m_lock
    /\ Occupied(1) /\ CounterOf(1) = NumVcpus
    /\ \A v \in Vcpus : ap2m_idx[v] = 1 /\ pause_count[v] = 0

\* C16 (I5): every step that makes an empty slot occupied or an occupied
\* slot empty (the install of altp2m_init_by_id and
\* altp2m_init_next_available, the clear of altp2m_destroy_by_id and
\* altp2m_flush, whatever altp2m_teardown does to the table) is a step of a
\* context that holds the lock, and at most one context holds the lock.
C16_LockDiscipline ==
    [][ /\ \A i \in Slots :
               ((altp2m_p2m'[i] = NULL) # (altp2m_p2m[i] = NULL))
                   => \E c \in Ctls :
                          ctl[c].lk /\ altp2m_lock /\ ctl'[c] # ctl[c]
        /\ Cardinality({c \in Ctls : ctl'[c].lk}) <= 1 ]_vars

\* C16 witness: a context that holds the lock has installed a view while
\* the other context waits for the lock to destroy it.
C16_Witness ==
    \E c, d \in Ctls :
        /\ ctl[c].pc = "ib_unlock" /\ ctl[c].lk /\ ctl[c].rc = 0
        /\ ctl[c].arg = 1 /\ Occupied(1) /\ p2m_st[altp2m_p2m[1]] = "live"
        /\ ctl[d].pc = "de_lock" /\ ctl[d].arg = 1 /\ ~ctl[d].lk
        /\ altp2m_lock /\ fault = "none"

\* C19: with two control contexts calling the switch, the destroy of a
\* view, the two allocations and the flush concurrently, under the fairness
\* of FairLockSpec every call that has started returns.
C19_EveryCallReturns ==
    \A c \in Ctls : (ctl[c].pc # "idle") ~> (ctl[c].pc = "ret")

====
